---- MODULE Spec2Model ----
(***************************************************************************)
(* Model of stackallocator.h: the List<T, Allocator> container (a circular *)
(* doubly linked ring through an in-place sentinel) and the StackAllocator *)
(* bump allocator over a StackStorage<N>.                                  *)
(*                                                                         *)
(* Memory is modelled at the level of the pointers the code manipulates:   *)
(* every BaseNode (heap nodes and the sentinels `data` of the list         *)
(* objects, the temporary `res` of operator= included) is an address with  *)
(* a prev and a next field.                                                *)
(***************************************************************************)
EXTENDS Integers, Sequences, FiniteSets, TLC

\* ------------------------------------------------------------------------
\* Bounds of the list model
\* ------------------------------------------------------------------------
MaxNodes == 3          \* number of node addresses the node allocator can hand out
MaxValue == 2          \* element values are 1..MaxValue

Nodes  == 1..MaxNodes
Values == 1..MaxValue
Lists  == {1, 2}       \* the two named list objects of the program
Scoped == {2}          \* the one that is constructed and destroyed while the other lives
Res    == 3            \* the local `List res` of operator=
Objs   == Lists \cup {Res}
Allocs == {1, 2}       \* distinguishable allocator values
DefaultValue == 0      \* the value-initialised element T()
NoKey  == -1           \* key of memory that holds no constructed element

Sent(o) == 0 - o       \* &data of list object o
Addr    == Nodes \cup {Sent(o) : o \in Objs}
Modes   == {"ok", "bad_alloc", "throw"}

VARIABLES
    prev, next,   \* BaseNode::prev / BaseNode::next of every address
    key,          \* Node::key
    st,           \* per node: "free", "raw" (allocated, no element), "live"
    by,           \* per node: the allocator value that allocated it (0: none)
    sz,           \* List::sz
    alive,        \* per list object: it has been constructed and not yet destroyed
    alloc,        \* List::alloc
    pocca,        \* propagate_on_container_copy_assignment::value of Allocator
    ub,           \* a destroy/deallocate was applied to something that is no live node
    last,         \* the call that was executed last, whether it returned normally
                  \* and, when it did, its arguments and the iterator it returned
    na, nc, nd, nf, \* per address: allocate / construct / destroy / deallocate calls
                    \* made by the call that was executed last
    via,          \* per address: the allocator value the last call deallocated it
                  \* through (0: it did not)
    from          \* per list object: the list it was copy-constructed from (0: none)

lvars == <<prev, next, key, st, by, sz, alive, alloc, pocca, ub, last, na, nc, nd, nf, via, from>>

\* ------------------------------------------------------------------------
\* Bounds of the arena model
\* ------------------------------------------------------------------------
Width      == 4        \* number of bits of size_t
Capacity   == 6        \* N of StackStorage<N>
MaxLive    == 2        \* regions held at the same time
MaxHandles == 2        \* StackAllocator objects

WordMod  == 2 ^ Width
Counts   == 0..(WordMod - 1)          \* every value of size_t
Types    == {1, 2, 3}                 \* element types T
SizeOf(t)  == <<1, 2, 4>>[t]          \* sizeof(T)
AlignOf(t) == <<1, 2, 4>>[t]          \* alignof(T)
Storages == {1}
Handles  == 1..MaxHandles
NoHandle == [st |-> 0, T |-> 0]

VARIABLES
    used,      \* StackStorage::size of every storage
    regions,   \* the regions handed out and not yet given back, oldest first
    hnd,       \* the StackAllocator objects: st (the storage pointed to) and T
    alast,     \* the allocator call that was executed last and whether it returned normally
    lifo       \* every region given back so far was the one handed out last

avars == <<used, regions, hnd, alast, lifo>>
vars  == <<lvars, avars>>

\* ------------------------------------------------------------------------
\* The memory as one value, so that a member function is an operator from
\* memory to memory and a handler can chain the calls it makes.
\* ------------------------------------------------------------------------
Zero == [p \in Addr |-> 0]

Mem == [prev |-> prev, next |-> next, key |-> key, st |-> st, by |-> by,
        sz |-> sz, alloc |-> alloc, ub |-> ub,
        na |-> Zero, nc |-> Zero, nd |-> Zero, nf |-> Zero, via |-> Zero,
        exc |-> FALSE, ret |-> 0]

\* the call op(pos, v) or op(count, v) on list l has run and left memory m
CommitList(m, op, l, src, pos, v, count) ==
    /\ prev' = m.prev /\ next' = m.next /\ key' = m.key /\ st' = m.st
    /\ by' = m.by /\ sz' = m.sz /\ alloc' = m.alloc /\ ub' = m.ub
    /\ na' = m.na /\ nc' = m.nc /\ nd' = m.nd /\ nf' = m.nf /\ via' = m.via
    /\ last' = [op |-> op, l |-> l, src |-> src, ok |-> ~m.exc,
                pos   |-> IF m.exc THEN 0 ELSE pos,
                v     |-> IF m.exc THEN NoKey ELSE v,
                count |-> IF m.exc THEN 0 ELSE count,
                ret   |-> IF m.exc \/ op \notin {"insert", "erase"} THEN 0 ELSE m.ret]
    /\ UNCHANGED pocca

\* the same for a list whose allocator is not the arena
CommitArgs(m, op, l, src, pos, v, count) ==
    CommitList(m, op, l, src, pos, v, count) /\ UNCHANGED avars

CommitMem(m, op, l, src) == CommitArgs(m, op, l, src, 0, NoKey, 0)

Commit(m, op, l, src) == CommitMem(m, op, l, src) /\ UNCHANGED <<alive, from>>

CommitCall(m, op, l, pos, v) ==
    CommitArgs(m, op, l, 0, pos, v, 0) /\ UNCHANGED <<alive, from>>

\* NodeTraits::allocate(alloc, 1) returning the free address it
AllocNode(m, o, it) ==
    [m EXCEPT !.st[it] = "raw", !.by[it] = m.alloc[o], !.na[it] = @ + 1]

\* NodeTraits::construct(alloc, it, p, n, v): Node(prev, next, key)
ConstructNode(m, it, p, n, v) ==
    [m EXCEPT !.st[it] = "live", !.prev[it] = p, !.next[it] = n, !.key[it] = v,
              !.nc[it] = @ + 1]

\* NodeTraits::destroy(alloc, static_cast<Node*>(p))
DestroyNode(m, p) ==
    IF p \in Nodes /\ m.st[p] = "live"
    THEN [m EXCEPT !.st[p] = "raw", !.key[p] = NoKey, !.nd[p] = @ + 1]
    ELSE [m EXCEPT !.nd[p] = @ + 1, !.ub = TRUE]

\* NodeTraits::deallocate(alloc, static_cast<Node*>(p), 1); the content of
\* released memory is indeterminate and is normalised here
DeallocNode(m, o, p) ==
    IF p \in Nodes /\ m.st[p] # "free"
    THEN [m EXCEPT !.st[p] = "free", !.key[p] = NoKey, !.by[p] = 0,
                   !.prev[p] = p, !.next[p] = p, !.nf[p] = @ + 1,
                   !.via[p] = m.alloc[o]]
    ELSE [m EXCEPT !.nf[p] = @ + 1, !.via[p] = m.alloc[o], !.ub = TRUE]

\* insert that does not release the node when the element constructor throws
insert_KeepsNodeOnThrow(m, o, pos, v, it, mode) ==
    IF mode = "bad_alloc" THEN [m EXCEPT !.exc = TRUE]
    ELSE LET m1 == AllocNode(m, o, it) IN
         IF mode = "throw" THEN [m1 EXCEPT !.exc = TRUE]
         ELSE LET m2 == ConstructNode(m1, it, m1.prev[pos], pos, v)
                  m3 == [m2 EXCEPT !.next[m2.prev[pos]] = it]
                  m4 == [m3 EXCEPT !.prev[pos] = it]
              IN [m4 EXCEPT !.sz[o] = @ + 1]

\* insert that links the new node behind iter.item instead of before it
insert_AfterPos(m, o, pos, v, it, mode) ==
    IF mode = "bad_alloc" THEN [m EXCEPT !.exc = TRUE]
    ELSE LET m1 == AllocNode(m, o, it) IN
         IF mode = "throw" THEN [DeallocNode(m1, o, it) EXCEPT !.exc = TRUE]
         ELSE LET m2 == ConstructNode(m1, it, pos, m1.next[pos], v)
                  m3 == [m2 EXCEPT !.prev[m2.next[pos]] = it]
                  m4 == [m3 EXCEPT !.next[pos] = it]
              IN [m4 EXCEPT !.sz[o] = @ + 1, !.ret = it]

\* List::insert(iter, value) on object o, iter.item = pos; mode says whether
\* the allocation throws, the element's copy constructor throws, or neither
insert(m, o, pos, v, it, mode) ==
    IF mode = "bad_alloc" THEN [m EXCEPT !.exc = TRUE]
    ELSE LET m1 == AllocNode(m, o, it) IN
         IF mode = "throw" THEN [DeallocNode(m1, o, it) EXCEPT !.exc = TRUE]
         ELSE LET m2 == ConstructNode(m1, it, m1.prev[pos], pos, v)
                  m3 == [m2 EXCEPT !.next[m2.prev[pos]] = it]
                  m4 == [m3 EXCEPT !.prev[pos] = it]
              IN [m4 EXCEPT !.sz[o] = @ + 1, !.ret = it]

\* erase that forgets --sz
erase_NoSizeUpdate(m, o, pos) ==
    LET it == m.next[pos]
        m1 == [m EXCEPT !.prev[it] = m.prev[pos]]
        m2 == [m1 EXCEPT !.next[m1.prev[pos]] = it]
        m3 == DestroyNode(m2, pos)
    IN [DeallocNode(m3, o, pos) EXCEPT !.ret = it]

\* erase that forgets it->prev = iter.item->prev
erase_NoPrevLink(m, o, pos) ==
    LET it == m.next[pos]
        m2 == [m EXCEPT !.next[m.prev[pos]] = it]
        m3 == DestroyNode(m2, pos)
        m4 == DeallocNode(m3, o, pos)
    IN [m4 EXCEPT !.sz[o] = @ - 1, !.ret = it]

\* erase that returns the node before the erased one
erase_ReturnsPrev(m, o, pos) ==
    LET it == m.next[pos]
        m1 == [m EXCEPT !.prev[it] = m.prev[pos]]
        m2 == [m1 EXCEPT !.next[m1.prev[pos]] = it]
        m3 == DestroyNode(m2, pos)
        m4 == DeallocNode(m3, o, pos)
    IN [m4 EXCEPT !.sz[o] = @ - 1, !.ret = m.prev[pos]]

\* List::erase(iter) on object o, iter.item = pos
erase(m, o, pos) ==
    LET it == m.next[pos]
        m1 == [m EXCEPT !.prev[it] = m.prev[pos]]
        m2 == [m1 EXCEPT !.next[m1.prev[pos]] = it]
        m3 == DestroyNode(m2, pos)
        m4 == DeallocNode(m3, o, pos)
    IN [m4 EXCEPT !.sz[o] = @ - 1, !.ret = it]

\* the loop of List::destroy() on object o, at `it`
RECURSIVE DestroyLoop(_, _, _, _)
DestroyLoop(m, o, it, fuel) ==
    IF it = Sent(o) \/ fuel = 0 THEN m
    ELSE LET tmp == m.next[it]
             m1  == DestroyNode(m, it)
             m2  == DeallocNode(m1, o, it)
         IN DestroyLoop(m2, o, tmp, fuel - 1)

\* destroy() that starts its walk one node too far
destroy_LeaksFirst(m, o) ==
    DestroyLoop(m, o, m.next[m.next[Sent(o)]], Cardinality(Addr))

\* List::destroy()
destroy(m, o) == DestroyLoop(m, o, m.next[Sent(o)], Cardinality(Addr))

\* clear() that releases the nodes and resets nothing
clear_NoReset(m, o) == destroy(m, o)

\* List::clear()
clear(m, o) ==
    LET m1 == destroy(m, o)
    IN [m1 EXCEPT !.prev[Sent(o)] = Sent(o), !.next[Sent(o)] = Sent(o), !.sz[o] = 0]

\* List::emplace_back() on object o; mode as for insert, the constructor
\* that may throw being T()
emplace_back(m, o, it, mode) ==
    IF mode = "bad_alloc" THEN [m EXCEPT !.exc = TRUE]
    ELSE LET m1 == AllocNode(m, o, it) IN
         IF mode = "throw" THEN [DeallocNode(m1, o, it) EXCEPT !.exc = TRUE]
         ELSE LET d  == Sent(o)
                  m2 == ConstructNode(m1, it, m1.prev[d], d, DefaultValue)
                  m3 == [m2 EXCEPT !.next[m2.prev[d]] = it]
                  m4 == [m3 EXCEPT !.prev[d] = it]
              IN [m4 EXCEPT !.sz[o] = @ + 1]

\* the address the node allocator returns next and the way the i-th
\* allocation of a loop ends: bad_alloc when no address is free
NextFree(m) ==
    LET free == {n \in Nodes : m.st[n] = "free"}
    IN IF free = {} THEN 0 ELSE CHOOSE n \in free : \A k \in free : n <= k
ModeAt(m, i, failAt, mode) ==
    IF NextFree(m) = 0 THEN "bad_alloc" ELSE IF i = failAt THEN mode ELSE "ok"

\* the loops of List(size_t count, const T& value, ...) with value = v and
\* of List(size_t count, ...) with v = DefaultValue, from iteration i
RECURSIVE FillLoop(_, _, _, _, _, _, _)
FillLoop(m, o, v, i, count, failAt, mode) ==
    IF i > count THEN m
    ELSE LET md == ModeAt(m, i, failAt, mode)
             m1 == IF v = DefaultValue
                   THEN emplace_back(m, o, NextFree(m), md)
                   ELSE insert(m, o, Sent(o), v, NextFree(m), md)
         IN IF m1.exc THEN m1
            ELSE FillLoop(m1, o, v, i + 1, count, failAt, mode)

\* the member initialisers of a list object o built with allocator a
NewList(m, o, a) ==
    [m EXCEPT !.alloc[o] = a, !.sz[o] = 0,
              !.prev[Sent(o)] = Sent(o), !.next[Sent(o)] = Sent(o)]

\* fill constructor whose catch block does not call destroy()
FillCtor_NoRollback(m, o, v, count, a, failAt, mode) ==
    FillLoop(NewList(m, o, a), o, v, 1, count, failAt, mode)

\* fill constructor whose loop runs from 1 instead of 0
FillCtor_OneShort(m, o, v, count, a, failAt, mode) ==
    LET m1 == FillLoop(NewList(m, o, a), o, v, 2, count, failAt, mode)
    IN IF m1.exc THEN destroy(m1, o) ELSE m1

\* List(size_t count, const T& value, const Allocator&) and
\* List(size_t count, const Allocator&) constructing object o
FillCtor(m, o, v, count, a, failAt, mode) ==
    LET m1 == FillLoop(NewList(m, o, a), o, v, 1, count, failAt, mode)
    IN IF m1.exc THEN destroy(m1, o) ELSE m1

\* List(const List& copy, const Allocator& alloc), the loop: push_back(*it)
\* for it = cur .. copy.end(); the i-th push_back fails in the way `mode`
\* says when i = failAt, and with bad_alloc when no address is free
RECURSIVE CopyLoop(_, _, _, _, _, _, _)
CopyLoop(m, o, src, cur, i, failAt, mode) ==
    IF cur = Sent(src) \/ i > Cardinality(Addr) THEN m
    ELSE LET m1 == insert(m, o, Sent(o), m.key[cur], NextFree(m),
                           ModeAt(m, i, failAt, mode))
         IN IF m1.exc THEN m1
            ELSE CopyLoop(m1, o, src, m1.next[cur], i + 1, failAt, mode)

\* copy constructor whose catch block does not call destroy()
CopyCtor_NoRollback(m, o, src, a, failAt, mode) ==
    LET m0 == NewList(m, o, a)
    IN CopyLoop(m0, o, src, m0.next[Sent(src)], 1, failAt, mode)

\* copy constructor that takes over the nodes of `copy` instead of copying
CopyCtor_Shallow(m, o, src, a, failAt, mode) ==
    IF m.next[Sent(src)] = Sent(src) THEN NewList(m, o, a)
    ELSE [NewList(m, o, a) EXCEPT !.next[Sent(o)] = m.next[Sent(src)],
                                  !.prev[Sent(o)] = m.prev[Sent(src)],
                                  !.sz[o] = m.sz[src]]

\* List(const List& copy, const Allocator& alloc) constructing object o
CopyCtor(m, o, src, a, failAt, mode) ==
    LET m0 == NewList(m, o, a)
        m1 == CopyLoop(m0, o, src, m0.next[Sent(src)], 1, failAt, mode)
    IN IF m1.exc THEN destroy(m1, o) ELSE m1

\* the body of List::operator=(const List& copy) on object l after res is built
AssignBody(m, l) ==
    LET d  == Sent(l)
        r  == Sent(Res)
        m1 == [m EXCEPT !.alloc[l] = m.alloc[Res], !.alloc[Res] = m.alloc[l]]
        m2 == [m1 EXCEPT !.prev[d] = m1.prev[r], !.next[d] = m1.next[r],
                         !.prev[r] = m1.prev[d], !.next[r] = m1.next[d]]
        m3 == [m2 EXCEPT !.sz[l] = m2.sz[Res]]
        m4 == [m3 EXCEPT !.prev[m3.next[d]] = d]
        m5 == [m4 EXCEPT !.next[m4.prev[d]] = d]
    IN [m5 EXCEPT !.next[m5.prev[r]] = r]

\* the end of the lifetime of list object o: what its members held is
\* indeterminate and is normalised here
EndObj(m, o) ==
    [m EXCEPT !.prev[Sent(o)] = Sent(o), !.next[Sent(o)] = Sent(o), !.sz[o] = 0]

\* the end of res's lifetime
EndRes(m) == [EndObj(m, Res) EXCEPT !.alloc[Res] = 0]

\* List::operator=(const List& copy) on object l with copy = src, ~List() of
\* res at the return included
assign(m, l, src, prop, failAt, mode) ==
    LET m1 == CopyCtor(m, Res, src, IF prop THEN m.alloc[src] ELSE m.alloc[l],
                       failAt, mode)
    IN IF m1.exc THEN EndRes(m1)
       ELSE EndRes(destroy(AssignBody(m1, l), Res))

\* iteration begin()..end(): the addresses operator++ visits before it
\* compares equal to end()
RECURSIVE WalkFrom(_, _, _, _)
WalkFrom(nx, s, cur, fuel) ==
    IF cur = s \/ fuel = 0 THEN <<>>
    ELSE <<cur>> \o WalkFrom(nx, s, nx[cur], fuel - 1)

Fwd(o) == WalkFrom(next, Sent(o), next[Sent(o)], Cardinality(Addr))
Bwd(o) == WalkFrom(prev, Sent(o), prev[Sent(o)], Cardinality(Addr))
Range(s) == {s[i] : i \in DOMAIN s}
Elems(o) == [i \in DOMAIN Fwd(o) |-> key[Fwd(o)[i]]]
FreeNodes == {n \in Nodes : st[n] = "free"}

\* ------------------------------------------------------------------------
\* StackStorage / StackAllocator
\* ------------------------------------------------------------------------
\* StackStorage(): size(0); the first StackAllocator is built from the storage
InitArena ==
    /\ used = [s \in Storages |-> 0]
    /\ regions = <<>>
    /\ hnd = [k \in Handles |-> IF k = 1 THEN [st |-> 1, T |-> 1] ELSE NoHandle]
    /\ alast = [op |-> "init", ok |-> TRUE]
    /\ lifo = TRUE

\* the padding allocate computes for element type t at cursor u
Padding(u, t) ==
    LET padding == u % AlignOf(t)
    IN IF padding > 0 THEN AlignOf(t) - padding ELSE padding

\* the test of allocate, in size_t arithmetic
Overflows(u, t, count) ==
    (u + ((count * SizeOf(t)) % WordMod) + Padding(u, t)) % WordMod > Capacity

\* StackAllocator<T, N>::allocate(count) at cursor u: whether it returns,
\* the pointer returned (as an offset into data) and the cursor afterwards
allocate(u, t, count) ==
    IF Overflows(u, t, count)
    THEN [ok |-> FALSE, p |-> 0, used |-> u]
    ELSE LET u1 == (u + Padding(u, t)) % WordMod
         IN [ok |-> TRUE, p |-> u1, used |-> (u1 + count * SizeOf(t)) % WordMod]

\* ptr + count leaves the address space: the comparison of deallocate is
\* then made on a pointer the language does not define
PointerOverflow(p, t, count) == p + count * SizeOf(t) >= WordMod

\* the outcomes of the comparison in deallocate
IsTail(u, t, p, count) ==
    IF PointerOverflow(p, t, count)
    THEN {(p + count * SizeOf(t)) % WordMod = u, FALSE}
    ELSE {p + count * SizeOf(t) = u}

\* deallocate that never moves the cursor back
deallocate_NeverReclaims(u, t, count, tail) == u

\* StackAllocator<T, N>::deallocate(ptr, count) at cursor u, the comparison
\* having come out as `tail`
deallocate(u, t, count, tail) ==
    IF tail THEN (u - count * SizeOf(t)) % WordMod ELSE u

Remove(seq, i) == [k \in 1..(Len(seq) - 1) |-> IF k < i THEN seq[k] ELSE seq[k + 1]]

Allocate(h, count) ==
    /\ hnd[h] # NoHandle
    /\ LET s == hnd[h].st
           t == hnd[h].T
           r == allocate(used[s], t, count)
       IN /\ r.ok => Len(regions) < MaxLive
          /\ used' = [used EXCEPT ![s] = r.used]
          /\ regions' = IF r.ok
                        THEN Append(regions, [st |-> s, T |-> t, p |-> r.p, count |-> count])
                        ELSE regions
          /\ alast' = [op |-> "allocate", ok |-> r.ok]
    /\ UNCHANGED <<hnd, lifo, lvars>>

Deallocate(h, i) ==
    /\ hnd[h] # NoHandle
    /\ i \in DOMAIN regions
    /\ regions[i].st = hnd[h].st /\ regions[i].T = hnd[h].T
    /\ LET r == regions[i]
       IN \E tail \in IsTail(used[r.st], r.T, r.p, r.count) :
            /\ used' = [used EXCEPT ![r.st] = deallocate(@, r.T, r.count, tail)]
            /\ alast' = [op |-> "deallocate", ok |-> TRUE]
    /\ regions' = Remove(regions, i)
    /\ lifo' = (lifo /\ i = Len(regions))
    /\ UNCHANGED <<hnd, lvars>>

\* StackAllocator(const StackAllocator<U, N>& copy) : st(copy.st), of the
\* same element type (a copy) or another one (a rebind)
CopyHandle(h, k, t) ==
    /\ hnd[h] # NoHandle
    /\ hnd[k] = NoHandle
    /\ hnd' = [hnd EXCEPT ![k] = [st |-> hnd[h].st, T |-> t]]
    /\ alast' = [op |-> "copy", ok |-> TRUE]
    /\ UNCHANGED <<used, regions, lifo, lvars>>

\* the expression a == b on two StackAllocator objects: the class declares
\* no operator==, so the build produces neither "true" nor "false"
Compare(a, b) == "ill-formed"

NextArena ==
    \/ \E h \in Handles, count \in Counts : Allocate(h, count)
    \/ \E h \in Handles, i \in 1..MaxLive : Deallocate(h, i)
    \/ \E h, k \in Handles, t \in Types : CopyHandle(h, k, t)

\* ------------------------------------------------------------------------
\* The program
\* ------------------------------------------------------------------------
Init ==
    /\ prev = [p \in Addr |-> p]
    /\ next = [p \in Addr |-> p]
    /\ key = [p \in Addr |-> NoKey]
    /\ st = [n \in Nodes |-> "free"]
    /\ by = [n \in Nodes |-> 0]
    /\ sz = [o \in Objs |-> 0]
    /\ alive = [l \in Lists |-> TRUE]
    /\ alloc = [o \in Objs |-> IF o = Res THEN 0 ELSE o]
    /\ pocca = FALSE
    /\ ub = FALSE
    /\ last = [op |-> "init", l |-> 0, src |-> 0, ok |-> TRUE,
               pos |-> 0, v |-> NoKey, count |-> 0, ret |-> 0]
    /\ na = Zero /\ nc = Zero /\ nd = Zero /\ nf = Zero /\ via = Zero
    /\ from = [l \in Lists |-> 0]
    /\ InitArena

\* the node address the allocator returns, when the call gets that far:
\* addresses are interchangeable, the allocator hands out the lowest free one
FirstFree == {n \in FreeNodes : \A k \in FreeNodes : n <= k}
Fresh(mode) == IF mode = "bad_alloc" THEN {0} ELSE FirstFree

PushBack(l, v) ==
    /\ ~ub /\ alive[l]
    /\ \E mode \in Modes : \E it \in Fresh(mode) :
         CommitCall(insert(Mem, l, Sent(l), v, it, mode), "push_back", l, Sent(l), v)

PushFront(l, v) ==
    /\ ~ub /\ alive[l]
    /\ \E mode \in Modes : \E it \in Fresh(mode) :
         CommitCall(insert(Mem, l, next[Sent(l)], v, it, mode), "push_front", l,
                    next[Sent(l)], v)

Insert(l, pos, v) ==
    /\ ~ub /\ alive[l]
    /\ pos \in Range(Fwd(l)) \cup {Sent(l)}
    /\ \E mode \in Modes : \E it \in Fresh(mode) :
         CommitCall(insert(Mem, l, pos, v, it, mode), "insert", l, pos, v)

PopBack(l) ==
    /\ ~ub /\ alive[l]
    /\ prev[Sent(l)] # Sent(l)
    /\ CommitCall(erase(Mem, l, prev[Sent(l)]), "pop_back", l, prev[Sent(l)], NoKey)

PopFront(l) ==
    /\ ~ub /\ alive[l]
    /\ next[Sent(l)] # Sent(l)
    /\ CommitCall(erase(Mem, l, next[Sent(l)]), "pop_front", l, next[Sent(l)], NoKey)

Erase(l, pos) ==
    /\ ~ub /\ alive[l]
    /\ pos \in Range(Fwd(l))
    /\ CommitCall(erase(Mem, l, pos), "erase", l, pos, NoKey)

Clear(l) ==
    /\ ~ub /\ alive[l]
    /\ Commit(clear(Mem, l), "clear", l, 0)

\* List() and List(const Allocator&) constructing object l
ConstructEmpty(l) ==
    /\ ~ub /\ ~alive[l]
    /\ CommitMem(NewList(Mem, l, alloc[l]), "List()", l, 0)
    /\ alive' = [alive EXCEPT ![l] = TRUE]
    /\ from' = [from EXCEPT ![l] = 0]

\* List(count, value, allocator) for v in Values and List(count, allocator)
\* for v = DefaultValue, constructing object l
ConstructFill(l, count, v) ==
    /\ ~ub /\ ~alive[l]
    /\ \E failAt \in 0..count, mode \in {"bad_alloc", "throw"} :
         /\ (failAt = 0 => mode = "throw")
         /\ LET m == FillCtor(Mem, l, v, count, alloc[l], failAt, mode)
            IN /\ CommitArgs(IF m.exc THEN EndObj(m, l) ELSE m,
                             IF v = DefaultValue THEN "List(n)" ELSE "List(n,v)",
                             l, 0, 0, v, count)
               /\ alive' = [alive EXCEPT ![l] = ~m.exc]
               /\ from' = [from EXCEPT ![l] = 0]

\* List(const List& copy) constructing object l from src;
\* select_on_container_copy_construction returns a copy of copy.alloc
ConstructCopy(l, src) ==
    /\ ~ub /\ ~alive[l] /\ alive[src]
    /\ \E failAt \in 0..Len(Fwd(src)), mode \in {"bad_alloc", "throw"} :
         /\ (failAt = 0 => mode = "throw")
         /\ LET m == CopyCtor(Mem, l, src, alloc[src], failAt, mode)
            IN /\ CommitMem(IF m.exc THEN [EndObj(m, l) EXCEPT !.alloc[l] = alloc[l]]
                                      ELSE m, "List(copy)", l, src)
               /\ alive' = [alive EXCEPT ![l] = ~m.exc]
               /\ from' = [from EXCEPT ![l] = IF m.exc THEN 0 ELSE src]

\* ~List() of object l
Destruct(l) ==
    /\ ~ub /\ alive[l]
    /\ CommitMem(EndObj(destroy(Mem, l), l), "~List", l, 0)
    /\ alive' = [alive EXCEPT ![l] = FALSE]
    /\ from' = [from EXCEPT ![l] = 0]

NextOps ==
    \/ \E l \in Lists, v \in Values : PushBack(l, v)
    \/ \E l \in Lists, v \in Values : PushFront(l, v)
    \/ \E l \in Lists, pos \in Addr, v \in Values : Insert(l, pos, v)
    \/ \E l \in Lists : PopBack(l)
    \/ \E l \in Lists : PopFront(l)
    \/ \E l \in Lists, pos \in Addr : Erase(l, pos)
    \/ \E l \in Lists : Clear(l)

Next ==
    \/ NextOps
    \/ \E l \in Scoped : ConstructEmpty(l)
    \/ \E l \in Scoped, count \in 0..MaxNodes, v \in Values \cup {DefaultValue} :
          ConstructFill(l, count, v)
    \/ \E l \in Scoped, src \in Lists : ConstructCopy(l, src)
    \/ \E l \in Scoped : Destruct(l)

Spec == Init /\ [][Next]_vars

SpecArena == Init /\ [][NextArena]_vars

Assign(l, src) ==
    /\ ~ub /\ alive[l] /\ alive[src]
    /\ \E failAt \in 0..Len(Fwd(src)), mode \in {"bad_alloc", "throw"} :
         /\ (failAt = 0 => mode = "throw")
         /\ Commit(assign(Mem, l, src, pocca, failAt, mode), "assign", l, src)

InitAssign ==
    /\ prev = [p \in Addr |-> p]
    /\ next = [p \in Addr |-> p]
    /\ key = [p \in Addr |-> NoKey]
    /\ st = [n \in Nodes |-> "free"]
    /\ by = [n \in Nodes |-> 0]
    /\ sz = [o \in Objs |-> 0]
    /\ alive = [l \in Lists |-> TRUE]
    /\ alloc = [o \in Objs |-> IF o = Res THEN 0 ELSE o]
    /\ pocca \in BOOLEAN
    /\ ub = FALSE
    /\ last = [op |-> "init", l |-> 0, src |-> 0, ok |-> TRUE,
               pos |-> 0, v |-> NoKey, count |-> 0, ret |-> 0]
    /\ na = Zero /\ nc = Zero /\ nd = Zero /\ nf = Zero /\ via = Zero
    /\ from = [l \in Lists |-> 0]
    /\ InitArena

NextAssign ==
    \/ NextOps
    \/ \E l \in Lists, src \in Lists : Assign(l, src)

SpecAssign == InitAssign /\ [][NextAssign]_vars

\* ------------------------------------------------------------------------
\* List<T, StackAllocator<T, N>>: list 1 as the only user of storage 1
\* ------------------------------------------------------------------------
ArenaList == 1
NodeType  == 2         \* the element type of the arena that is List::Node
NodeAt(p)   == p \div SizeOf(NodeType) + 1     \* the node at offset p of data
OffsetOf(n) == (n - 1) * SizeOf(NodeType)

\* insert(pos, v) called as `op`: NodeTraits::allocate and deallocate are
\* StackAllocator<Node, N>::allocate(1) and deallocate(it, 1)
ArenaInsert(op, pos, v) ==
    LET l == ArenaList
        r == allocate(used[1], NodeType, 1)
        region == [st |-> 1, T |-> NodeType, p |-> r.p, count |-> 1]
    IN /\ ~ub /\ alive[l]
       /\ \E mode \in Modes :
            /\ (mode = "bad_alloc") <=> ~r.ok
            /\ r.ok => NodeAt(r.p) \in FreeNodes
            /\ CommitList(insert(Mem, l, pos, v, IF r.ok THEN NodeAt(r.p) ELSE 0, mode),
                          op, l, 0, pos, v, 0)
            /\ \/ /\ mode = "bad_alloc"
                  /\ alast' = [op |-> "allocate", ok |-> FALSE]
                  /\ UNCHANGED <<used, regions>>
               \/ /\ mode = "ok"
                  /\ used' = [used EXCEPT ![1] = r.used]
                  /\ regions' = Append(regions, region)
                  /\ alast' = [op |-> "allocate", ok |-> TRUE]
               \/ /\ mode = "throw"
                  /\ \E tail \in IsTail(r.used, NodeType, r.p, 1) :
                        used' = [used EXCEPT ![1] = deallocate(r.used, NodeType, 1, tail)]
                  /\ alast' = [op |-> "deallocate", ok |-> TRUE]
                  /\ UNCHANGED regions
       /\ UNCHANGED <<alive, from, hnd, lifo>>

\* erase(pos) called as `op`
ArenaErase(op, pos) ==
    LET l == ArenaList
    IN /\ ~ub /\ alive[l]
       /\ pos \in Range(Fwd(l))
       /\ \E i \in DOMAIN regions :
            /\ regions[i].p = OffsetOf(pos)
            /\ \E tail \in IsTail(used[1], NodeType, OffsetOf(pos), 1) :
                  used' = [used EXCEPT ![1] = deallocate(@, NodeType, 1, tail)]
            /\ regions' = Remove(regions, i)
            /\ lifo' = (lifo /\ i = Len(regions))
       /\ alast' = [op |-> "deallocate", ok |-> TRUE]
       /\ CommitList(erase(Mem, l, pos), op, l, 0, pos, NoKey, 0)
       /\ UNCHANGED <<alive, from, hnd>>

ArenaPushBack(v)  == ArenaInsert("push_back", Sent(ArenaList), v)
ArenaPushFront(v) == ArenaInsert("push_front", next[Sent(ArenaList)], v)
ArenaPopBack  == ArenaErase("pop_back", prev[Sent(ArenaList)])
ArenaPopFront == ArenaErase("pop_front", next[Sent(ArenaList)])

ArenaInsertAt(pos, v) ==
    /\ pos \in Range(Fwd(ArenaList)) \cup {Sent(ArenaList)}
    /\ ArenaInsert("insert", pos, v)
ArenaEraseAt(pos) == ArenaErase("erase", pos)

NextListArena ==
    \/ \E v \in Values : ArenaPushBack(v)
    \/ \E v \in Values : ArenaPushFront(v)
    \/ \E pos \in Addr, v \in Values : ArenaInsertAt(pos, v)
    \/ ArenaPopBack
    \/ ArenaPopFront
    \/ \E pos \in Addr : ArenaEraseAt(pos)

SpecListArena == Init /\ [][NextListArena]_vars

\* ------------------------------------------------------------------------
\* Properties of the list
\* ------------------------------------------------------------------------
Reverse(s) == [i \in DOMAIN s |-> s[Len(s) + 1 - i]]
IsInsertOp(op) == op \in {"insert", "push_back", "push_front"}
IsEraseOp(op)  == op \in {"erase", "pop_back", "pop_front"}

\* the ring of list object o is a circular doubly linked ring of live nodes
\* through o's own sentinel
RingOK(o) ==
    LET f == Fwd(o)
        s == Sent(o)
    IN /\ \A i \in DOMAIN f : f[i] \in Nodes /\ st[f[i]] = "live"
       /\ \A i, j \in DOMAIN f : i # j => f[i] # f[j]
       /\ \A n \in Range(f) \cup {s} : prev[next[n]] = n /\ next[prev[n]] = n
       /\ next[s] = (IF f = <<>> THEN s ELSE f[1])
       /\ prev[s] = (IF f = <<>> THEN s ELSE f[Len(f)])
       /\ Bwd(o) = Reverse(f)

\* C2: size() equals the number of nodes reached by walking the next-links
\* from sentinel.next until the sentinel, after any sequence of push_back,
\* push_front, insert, pop_back, pop_front and erase.
C2_SizeIsWalkLength == \A l \in Lists : alive[l] => sz[l] = Len(Fwd(l))

\* a list of two elements that an erase has just shortened
C2_Witness ==
    /\ IsEraseOp(last.op)
    /\ sz[last.l] = 2
    /\ Len(Fwd(last.l)) = 2

\* C3: after any sequence of construction, push_back, push_front, insert,
\* pop_back, pop_front, erase and clear every list's ring is a well-formed
\* circular doubly linked ring through its own sentinel, and the backward
\* traversal is the forward one reversed.
C3_RingWellFormed == \A l \in Lists : alive[l] => RingOK(l)

\* an erase that left two linked elements in its list
C3_Witness ==
    /\ last.op = "erase"
    /\ Len(Fwd(last.l)) = 2 /\ Len(Bwd(last.l)) = 2
    /\ \E n \in Nodes : nd[n] = 1 /\ nf[n] = 1

\* C10: a failed insert, push_back or push_front leaves the size, the element
\* sequence and every link as they were, has deallocated whatever it
\* allocated, and has run no destructor.
C10_FailedInsertIsNoOp ==
    [][(IsInsertOp(last'.op) /\ ~last'.ok) =>
         /\ prev' = prev /\ next' = next /\ key' = key /\ sz' = sz
         /\ st' = st /\ by' = by /\ ~ub'
         /\ \A p \in Addr : nf'[p] = na'[p] /\ nd'[p] = 0 /\ nc'[p] = 0]_vars

\* an insert into a two element list whose element constructor threw after
\* the node had been allocated
C10_Witness ==
    /\ last.op = "insert" /\ ~last.ok
    /\ sz[last.l] = 2
    /\ \E p \in Nodes : na[p] = 1 /\ nf[p] = 1

\* ------------------------------------------------------------------------
\* Properties of copy assignment
\* ------------------------------------------------------------------------
AssignReturned(a, b) ==
    last'.op = "assign" /\ last'.ok /\ last'.l = a /\ last'.src = b
AssignThrew == last'.op = "assign" /\ ~last'.ok

\* C1: after a successful a = b, for lists of every size, size(a) = size(b),
\* iterating a from begin() to end() yields b's elements in b's order and
\* stops at a's own sentinel, and b is unchanged.
C1_AssignCopies ==
    [][\A a, b \in Lists : AssignReturned(a, b) =>
            /\ sz'[a] = sz'[b]
            /\ Elems(a)' = Elems(b)'
            /\ RingOK(a)'
            /\ Elems(b)' = Elems(b) /\ sz'[b] = sz[b]
            /\ (a # b => Fwd(b)' = Fwd(b))]_vars

\* C4: when the temporary of a successful a = b is destroyed, exactly the
\* nodes a owned before are destroyed and deallocated, each once; no node a
\* owns afterwards and no sentinel is destroyed or deallocated, and none of
\* a's old nodes is leaked.
C4_AssignReleasesOldNodes ==
    [][\A a, b \in Lists : AssignReturned(a, b) =>
            /\ \A p \in Addr : /\ nd'[p] = (IF p \in Range(Fwd(a)) THEN 1 ELSE 0)
                                /\ nf'[p] = (IF p \in Range(Fwd(a)) THEN 1 ELSE 0)
            /\ \A p \in Range(Fwd(a)) : st'[p] = "free"
            /\ ~ub']_vars

\* C5: self-assignment leaves every list, the empty one included, with the
\* same size and the same element sequence and a well-formed ring through
\* its own sentinel.
C5_SelfAssignIsSafe ==
    [][\A a \in Lists : AssignReturned(a, a) =>
            /\ sz'[a] = sz[a]
            /\ Elems(a)' = Elems(a)
            /\ RingOK(a)']_vars

\* C6: if A = B fails while the temporary copy of B is built, A has the same
\* size, elements, backing nodes, links and allocator as before, B is
\* unchanged, and every node built for the partial temporary has been
\* destroyed and deallocated.
C6_FailedAssignIsNoOp ==
    [][AssignThrew =>
         /\ prev' = prev /\ next' = next /\ key' = key /\ sz' = sz
         /\ alloc' = alloc /\ st' = st /\ by' = by /\ ~ub'
         /\ \A p \in Addr : nf'[p] = na'[p] /\ nd'[p] = nc'[p] /\ na'[p] <= 1]_vars

\* a failed assignment to a non-empty list whose partial temporary held a
\* constructed node
C6_Witness ==
    /\ last.op = "assign" /\ ~last.ok
    /\ sz[last.l] >= 1
    /\ \E p \in Nodes : nc[p] = 1 /\ nd[p] = 1 /\ nf[p] = 1

\* ------------------------------------------------------------------------
\* Properties of the arena
\* ------------------------------------------------------------------------
\* the bytes of data a region covers, as offsets into data
Bytes(r) == (r.p)..(r.p + r.count * SizeOf(r.T) - 1)

\* C7: allocate(count) returns whenever used + padding + count*sizeof(T) <= N
\* and throws bad_alloc exactly when that sum exceeds N; a failed allocate
\* leaves used as it was, so that a request for exactly the remaining space
\* succeeds.
C7_AllocateFailsExactlyWhenFull ==
    \A s \in Storages, t \in Types, count \in Counts :
        LET u == used[s]
            r == allocate(u, t, count)
        IN /\ r.ok <=> (u + Padding(u, t) + count * SizeOf(t) <= Capacity)
           /\ ~r.ok => /\ r.used = u
                       /\ allocate(r.used, 1, Capacity - r.used).ok

\* C8: for any interleaving of allocate and deallocate through the handles
\* sharing a storage, 0 <= used <= N, every live region lies inside
\* [0, used) and live regions are pairwise disjoint.
C8_LiveRegionsInsideAndDisjoint ==
    /\ \A s \in Storages : 0 <= used[s] /\ used[s] <= Capacity
    /\ \A i \in DOMAIN regions : Bytes(regions[i]) \subseteq 0..(used[regions[i].st] - 1)
    /\ \A i, j \in DOMAIN regions :
         (i # j /\ regions[i].st = regions[j].st)
            => Bytes(regions[i]) \cap Bytes(regions[j]) = {}

\* C9: deallocate of the region that is the current tail reduces used by
\* exactly count*sizeof(T), deallocate of any other region leaves used
\* unchanged, and allocate never returns bytes below used.
C9_OnlyTailIsReclaimed ==
    [][/\ alast'.op = "deallocate" =>
            \A i \in DOMAIN regions : regions' = Remove(regions, i) =>
                LET r == regions[i]
                IN IF r.p + r.count * SizeOf(r.T) = used[r.st]
                   THEN used' = [used EXCEPT ![r.st] = @ - r.count * SizeOf(r.T)]
                   ELSE used' = used
       /\ (alast'.op = "allocate" /\ alast'.ok) =>
            \A s \in Storages : regions'[Len(regions')].st = s
                                   => regions'[Len(regions')].p >= used[s]]_vars

\* ------------------------------------------------------------------------
\* Properties of construction and destruction
\* ------------------------------------------------------------------------
IsCtorOp(op) == op \in {"List(n)", "List(n,v)", "List(copy)"}

\* C11: when List(k), List(k, value) or the copy of a k-element list fails at
\* its m-th element, every node constructed before has been destroyed and
\* deallocated exactly once, the node whose element failed has been
\* deallocated without a destructor call, and no element is left live.
C11_FailedCtorReleasesAll ==
    [][(IsCtorOp(last'.op) /\ ~last'.ok) =>
         /\ \A p \in Addr : /\ na'[p] <= 1 /\ nc'[p] <= na'[p]
                             /\ nd'[p] = nc'[p] /\ nf'[p] = na'[p]
                             /\ (na'[p] = 1 => p \in Nodes /\ st'[p] = "free")
         /\ Cardinality({p \in Addr : na'[p] = 1 /\ nc'[p] = 0}) <= 1
         /\ st' = st /\ key' = key /\ prev' = prev /\ next' = next
         /\ ~ub' /\ ~alive'[last'.l]]_vars

\* a fill constructor that failed at its second element: one node was
\* constructed and rolled back, one was allocated and never constructed
C11_Witness ==
    /\ last.op = "List(n,v)" /\ ~last.ok
    /\ \E p, q \in Nodes :
         /\ nc[p] = 1 /\ nd[p] = 1 /\ nf[p] = 1
         /\ na[q] = 1 /\ nc[q] = 0 /\ nd[q] = 0 /\ nf[q] = 1

IsMutOp(op) == IsInsertOp(op) \/ IsEraseOp(op) \/ op = "clear"

\* C12: copy-constructing L2 from L gives size(L2) = size(L) and the same
\* elements in iteration order, on nodes disjoint from L's; any later push,
\* pop, insert, erase or clear on L2 leaves L's size, elements and links
\* unchanged.
C12_CopyIsEqualAndIndependent ==
    [][\A a, b \in Lists :
         /\ (last'.op = "List(copy)" /\ last'.ok /\ last'.l = a /\ last'.src = b) =>
               /\ sz'[a] = sz'[b]
               /\ Elems(a)' = Elems(b)'
               /\ Range(Fwd(a))' \cap Range(Fwd(b))' = {}
               /\ sz'[b] = sz[b] /\ Fwd(b)' = Fwd(b) /\ Elems(b)' = Elems(b)
         /\ (from[a] = b /\ last'.l = a /\ IsMutOp(last'.op)) =>
               /\ sz'[b] = sz[b] /\ Fwd(b)' = Fwd(b) /\ Elems(b)' = Elems(b)
               /\ \A n \in Range(Fwd(b)) \cup {Sent(b)} :
                     prev'[n] = prev[n] /\ next'[n] = next[n]
               /\ Range(Fwd(a))' \cap Range(Fwd(b))' = {}]_vars

\* the copy of a one-element list has just been erased from, the original
\* still holding its element
C12_Witness ==
    /\ IsEraseOp(last.op) /\ last.ok /\ last.l \in Lists
    /\ from[last.l] \in Lists
    /\ sz[last.l] = 0
    /\ sz[from[last.l]] = 1

\* the nodes list object l holds
Owned(l) == IF alive[l] THEN Range(Fwd(l)) ELSE {}

\* C13: for any sequence of push_back, push_front, insert, pop_back,
\* pop_front, erase and clear followed by the destruction of the list, every
\* node that was allocated is destroyed once and deallocated once through
\* the list's allocator, and nothing else is: an allocated node is always a
\* live node of exactly one list, an erase releases exactly the erased node,
\* clear and ~List release exactly the nodes the list holds.
C13_EveryNodeReleasedOnce ==
    [][/\ ~ub'
       /\ \A n \in Nodes : st'[n] \in {"free", "live"}
       /\ {n \in Nodes : st'[n] = "live"} = UNION {Owned(l)' : l \in Lists}
       /\ \A a, b \in Lists : a # b => Owned(a)' \cap Owned(b)' = {}
       /\ \A l \in Lists : \A n \in Owned(l)' : by'[n] = alloc'[l]
       /\ \A l \in Lists : (last'.l = l /\ last'.op \in {"~List", "clear"}) =>
            \A p \in Addr :
               IF p \in Owned(l)
               THEN nd'[p] = 1 /\ nf'[p] = 1 /\ via'[p] = alloc[l] /\ st'[p] = "free"
               ELSE nd'[p] = 0 /\ nf'[p] = 0
       /\ \A l \in Lists : (last'.l = l /\ IsEraseOp(last'.op)) =>
            \A p \in Addr :
               IF p = last'.pos
               THEN nd'[p] = 1 /\ nf'[p] = 1 /\ via'[p] = alloc[l] /\ st'[p] = "free"
               ELSE nd'[p] = 0 /\ nf'[p] = 0]_vars

\* a list of two elements has just been destroyed while the other list
\* holds an element
C13_Witness ==
    /\ last.op = "~List" /\ last.l \in Lists
    /\ ~alive[last.l]
    /\ Cardinality({p \in Nodes : nd[p] = 1 /\ nf[p] = 1}) = 2
    /\ \E l \in Lists : alive[l] /\ sz[l] = 1

\* ------------------------------------------------------------------------
\* Properties of insert and erase
\* ------------------------------------------------------------------------
\* the position of address pos in the walk f of list l, end() being Len(f) + 1
IndexOf(f, l, pos) ==
    IF pos = Sent(l) THEN Len(f) + 1 ELSE CHOOSE k \in DOMAIN f : f[k] = pos
InsertAt(f, i, x) == SubSeq(f, 1, i - 1) \o <<x>> \o SubSeq(f, i, Len(f))
RemoveAt(f, i) == SubSeq(f, 1, i - 1) \o SubSeq(f, i + 1, Len(f))

\* C14: insert(pos, v) puts a new node holding v immediately before pos,
\* returns an iterator to it, increases the size by one and leaves the
\* values, the order and the nodes of all other elements as they were;
\* push_back is the insert before end() and appends, push_front is the
\* insert at begin() and prepends.
C14_InsertPlacesBeforePos ==
    [][\A l \in Lists : (IsInsertOp(last'.op) /\ last'.ok /\ last'.l = l) =>
         LET f == Fwd(l)
             i == IndexOf(f, l, last'.pos)
         IN /\ last'.pos \in Range(f) \cup {Sent(l)}
            /\ \E it \in FreeNodes :
                  /\ Fwd(l)' = InsertAt(f, i, it)
                  /\ key'[it] = last'.v
                  /\ last'.op = "insert" => last'.ret = it
                  /\ last'.op = "push_back" => Fwd(l)' = Append(f, it)
                  /\ last'.op = "push_front" => Fwd(l)' = <<it>> \o f
            /\ Bwd(l)' = Reverse(Fwd(l)')
            /\ \A n \in Range(f) : key'[n] = key[n]
            /\ sz'[l] = sz[l] + 1]_vars

\* an insert in the middle of a two-element list
C14_Witness ==
    /\ last.op = "insert" /\ last.ok /\ last.l \in Lists
    /\ Len(Fwd(last.l)) = 3
    /\ Fwd(last.l)[2] = last.ret
    /\ Fwd(last.l)[3] = last.pos

\* C15: erase(pos) on a non-end position removes exactly the node at pos,
\* decreases the size by one, returns an iterator to the node that followed
\* it (end() when it was the last) and leaves the values, the order and the
\* nodes of all other elements as they were; pop_back removes the last
\* element and pop_front the first.
C15_EraseRemovesPos ==
    [][\A l \in Lists : (IsEraseOp(last'.op) /\ last'.ok /\ last'.l = l) =>
         LET f == Fwd(l)
             i == IndexOf(f, l, last'.pos)
         IN /\ last'.pos \in Range(f)
            /\ Fwd(l)' = RemoveAt(f, i)
            /\ Bwd(l)' = Reverse(Fwd(l)')
            /\ \A n \in Range(f) \ {last'.pos} : key'[n] = key[n]
            /\ sz'[l] = sz[l] - 1
            /\ last'.op = "erase" =>
                  last'.ret = (IF i = Len(f) THEN Sent(l) ELSE f[i + 1])
            /\ last'.op = "pop_back" => i = Len(f)
            /\ last'.op = "pop_front" => i = 1]_vars

\* an erase that returned an iterator to the last of the two elements left
C15_Witness ==
    /\ last.op = "erase" /\ last.ok /\ last.l \in Lists
    /\ Len(Fwd(last.l)) = 2
    /\ Fwd(last.l)[2] = last.ret
    /\ st[last.pos] = "free"

\* C16: after clear() the size is 0 and the sentinel's next and prev are the
\* sentinel itself; the list is then in the state of a list that has just
\* been default-constructed with the same allocator, so that every following
\* sequence of operations behaves as on such a list.
C16_ClearGivesFreshList ==
    [][\A l \in Lists : (last'.op = "clear" /\ last'.l = l) =>
         /\ last'.ok /\ ~ub'
         /\ sz'[l] = 0
         /\ next'[Sent(l)] = Sent(l) /\ prev'[Sent(l)] = Sent(l)
         /\ Fwd(l)' = <<>> /\ Bwd(l)' = <<>>
         /\ alloc'[l] = alloc[l]
         /\ \A n \in Range(Fwd(l)) : st'[n] = "free"
         /\ Mem' = NewList(Mem, l, alloc[l])']_vars

\* clear() has just released two elements
C16_Witness ==
    /\ last.op = "clear" /\ last.l \in Lists
    /\ Cardinality({p \in Nodes : nd[p] = 1 /\ nf[p] = 1}) = 2
    /\ sz[last.l] = 0

\* C17: when no construction fails, List(count) gives a list of size count
\* whose elements are all value-initialised and List(count, value) a list of
\* size count whose elements all equal value; a default-constructed list
\* has size 0 and allocates nothing.
C17_FillCtorGivesCountCopies ==
    [][\A l \in Lists : (last'.l = l /\ last'.ok) =>
         /\ last'.op \in {"List(n)", "List(n,v)"} =>
              /\ alive'[l]
              /\ sz'[l] = last'.count
              /\ Len(Fwd(l)') = last'.count
              /\ \A k \in DOMAIN Elems(l)' : Elems(l)'[k] = last'.v
              /\ last'.op = "List(n)" => last'.v = DefaultValue
              /\ RingOK(l)'
         /\ last'.op = "List()" =>
              /\ alive'[l]
              /\ sz'[l] = 0 /\ Fwd(l)' = <<>>
              /\ \A p \in Addr : na'[p] = 0 /\ nc'[p] = 0]_vars

\* List(2, value) has returned
C17_Witness ==
    /\ last.op = "List(n,v)" /\ last.ok /\ last.l \in Lists
    /\ last.count = 2 /\ sz[last.l] = 2
    /\ last.v \in Values

\* C18: two allocator handles compare equal if and only if they reference
\* the same storage; copying or rebinding a handle gives a handle equal to
\* the original and never changes the storage's used.
C18_HandlesEqualIffSameStorage ==
    [][/\ \A h, k \in Handles : (hnd'[h] # NoHandle /\ hnd'[k] # NoHandle) =>
             Compare(hnd'[h], hnd'[k]) =
                (IF hnd'[h].st = hnd'[k].st THEN "true" ELSE "false")
       /\ alast'.op = "copy" =>
             /\ used' = used
             /\ \E h, k \in Handles :
                   /\ hnd[h] # NoHandle /\ hnd[k] = NoHandle
                   /\ hnd'[k].st = hnd[h].st
                   /\ Compare(hnd'[k], hnd'[h]) = "true"]_vars

\* C19: every successful allocate(count) for element type T first advances
\* used by the smallest padding that makes it a multiple of alignof(T), so
\* the region returned starts at a multiple of alignof(T), and used
\* afterwards is that offset plus count*sizeof(T).
C19_AllocateAlignsThenAdvances ==
    [][(alast'.op = "allocate" /\ alast'.ok) =>
         LET r == regions'[Len(regions')]
             u == used[r.st]
         IN /\ r.p % AlignOf(r.T) = 0
            /\ r.p >= u /\ r.p - u < AlignOf(r.T)
            /\ used'[r.st] = r.p + r.count * SizeOf(r.T)]_vars

\* C20: a = b builds its temporary with b's allocator when the allocator
\* propagates on copy assignment and with a's own otherwise; after a
\* successful assignment a holds that allocator, every node a owns was
\* allocated by it, and a's old nodes have been deallocated through the
\* allocator that allocated them.
C20_AssignKeepsNodesWithTheirAllocator ==
    [][\A a, b \in Lists : AssignReturned(a, b) =>
         LET t == IF pocca THEN alloc[b] ELSE alloc[a]
         IN /\ alloc'[a] = t
            /\ \A p \in Addr : na'[p] > 0 => (p \in Range(Fwd(a))' /\ by'[p] = t)
            /\ \A p \in Range(Fwd(a))' : p \in Nodes /\ by'[p] = alloc'[a]
            /\ \A p \in Range(Fwd(a)) : nf'[p] = 1 /\ via'[p] = by[p]
            /\ \A p \in Addr : nf'[p] > 0 => p \in Range(Fwd(a))]_vars

\* C21: for every count a size_t can hold, those for which count*sizeof(T)
\* or used + count*sizeof(T) + padding wraps around included, allocate either
\* fails or returns a region that lies entirely inside the buffer, and used
\* never exceeds N.
C21_AllocateStaysInsideBuffer ==
    [][/\ \A s \in Storages : used'[s] <= Capacity
       /\ (alast'.op = "allocate" /\ alast'.ok) =>
            Bytes(regions'[Len(regions')]) \subseteq 0..(Capacity - 1)]_vars

\* the smallest multiple of a that is not below u
RoundUp(u, a) == ((u + a - 1) \div a) * a

NodeCapacity == Capacity \div SizeOf(NodeType)

\* C23: for a list that is the only user of an initially empty arena, k
\* push_back followed by k pop_back (or k push_front followed by k
\* pop_front), that is nodes released in reverse order of allocation, bring
\* used back to 0: the whole capacity is available again, and as long as
\* nodes are released in that order a push runs out of memory only when the
\* list holds as many nodes as the storage has room for.
C23_ReverseReleaseReturnsArena ==
    [][lifo' =>
         /\ used'[1] = sz'[ArenaList] * SizeOf(NodeType)
         /\ sz'[ArenaList] = 0 =>
               /\ used'[1] = 0 /\ regions' = <<>>
               /\ allocate(used'[1], NodeType, NodeCapacity).ok
         /\ (alast'.op = "allocate" /\ ~alast'.ok) => sz[ArenaList] = NodeCapacity
         /\ IsEraseOp(last'.op) => used'[1] = used[1] - SizeOf(NodeType)]_vars

\* the last of the nodes pushed has been popped, in reverse order of
\* allocation, and the arena is empty again
C23_Witness ==
    /\ IsEraseOp(last.op) /\ last.l = ArenaList /\ lifo
    /\ sz[ArenaList] = 0 /\ used[1] = 0
    /\ nf[NodeAt(0)] = 1
====
